---- MODULE Spec2Model ----
(***************************************************************************)
(* Ruggy: an embedded, file-backed document store.                         *)
(* Model of rust/src/collection.rs (Collection), rust/src/db.rs           *)
(* (Database) and rust/src/ffi.rs (the C boundary), with the durable file  *)
(* kept as a flat sequence of tokens so that serialisation, line splitting *)
(* and parsing are real conversions.                                       *)
(*                                                                         *)
(* Spec     several threads calling into one Collection                    *)
(* SpecSeq  one caller, over a file an earlier run may have left           *)
(* SpecIns  every thread inserts once, then find_all                       *)
(* SpecDb   several threads asking one Database for collections by name    *)
(* SpecIo   one caller, over a disk that may fail                          *)
(* SpecLoad Collection::new over every short file                          *)
(* SpecFind one caller running find and find_with_operator                 *)
(* SpecMut  several threads running update_field and delete_by_id only     *)
(* SpecLive every operation, one call per thread, under fair scheduling    *)
(* SpecFfi  callers of the extern "C" functions, null handles included     *)
(***************************************************************************)
EXTENDS Integers, Sequences, FiniteSets, TLC

(* ------------------------------ bounds -------------------------------- *)
\* number of client threads sharing one Collection
NThreads == 2
\* the longest file, in tokens, that Collection::new is run over on its own
MaxFileLen == 4
\* number of identifiers Uuid::new_v4 hands out before inserts stop
MaxIds == 2
\* number of calls issued in one behaviour
MaxCalls == 3

Threads == 1..NThreads

(* --------------------------- JSON values ------------------------------ *)
\* serde_json::Value, restricted to strings, numbers, null and flat objects.
\* A value is [k |-> kind, v |-> payload]; an object's payload maps every
\* field name to a scalar or to Absent.
Fields == {"_id", "a"}
\* serde_json::Map is a BTreeMap: keys are written in byte order
FieldOrder == <<"_id", "a">>

Str(n) == [k |-> "str", v |-> n]
Num(n) == [k |-> "num", v |-> n]
Bool(b) == [k |-> "bool", v |-> b]
EmptyArray == [k |-> "array", v |-> << >>]
Null == [k |-> "null", v |-> 0]
Absent == [k |-> "absent", v |-> 0]
Obj(m) == [k |-> "obj", v |-> m]

EmptyMap == [f \in Fields |-> Absent]
IsObject(d) == d.k = "obj"

\* Value::get(field): Some(v) on an object holding the key, else None (Absent)
Get(d, f) == IF IsObject(d) THEN d.v[f] ELSE Absent

\* doc.get("_id").and_then(|v| v.as_str()) == Some(id)
HasId(d, id) == Get(d, "_id") = Str(id)

\* obj.insert(field, value) on a Value::Object
ObjInsert(d, f, val) == Obj([d.v EXCEPT ![f] = val])

\* the document {"_id": id, "a": a}
Doc(id, a) == Obj([EmptyMap EXCEPT !["_id"] = Str(id), !["a"] = a])

(* --------------------- serialisation and parsing ---------------------- *)
Tok(t, key, val) == [t |-> t, key |-> key, val |-> val]
LB == Tok("{", "", Absent)
RB == Tok("}", "", Absent)
NL == Tok("nl", "", Absent)
WS == Tok("ws", "", Absent)
NUL == Tok("nul", "", Absent)
\* bytes that are no valid UTF-8, such as a multi-byte character cut short
BAD == Tok("bad", "", Absent)
KV(f, val) == Tok("kv", f, val)
SC(val) == Tok("sc", "", val)

RECURSIVE Members(_, _)
Members(m, i) ==
    IF i > Len(FieldOrder) THEN << >>
    ELSE (IF m[FieldOrder[i]] = Absent THEN << >>
          ELSE << KV(FieldOrder[i], m[FieldOrder[i]]) >>) \o Members(m, i + 1)

\* serde_json::to_string(&doc): one line of JSON text, without the newline
to_string(d) ==
    IF IsObject(d) THEN <<LB>> \o Members(d.v, 1) \o <<RB>> ELSE << SC(d) >>

\* defect: write! for writeln!, the line is left unterminated
WriteNoNewline(d) == to_string(d)

\* writeln!(writer, "{}", json_line)
WriteLn(d) == to_string(d) \o <<NL>>

RECURSIVE FromMembers(_, _)
FromMembers(toks, m) ==
    IF toks = << >> THEN m
    ELSE FromMembers(Tail(toks), [m EXCEPT ![Head(toks).key] = Head(toks).val])

ParseError == [k |-> "error", v |-> 0]

\* serde_json::from_str::<Value>(&line): whitespace between tokens is
\* insignificant; a repeated key keeps its last value; anything that is not
\* one complete value is an error.
FromStr(line) ==
    LET s == SelectSeq(line, LAMBDA x : x # WS)
        n == Len(s)
    IN  IF n = 1 /\ s[1].t = "sc" THEN s[1].val
        ELSE IF n >= 2 /\ s[1] = LB /\ s[n] = RB
                /\ \A i \in 2..(n - 1) : s[i].t = "kv"
             THEN Obj(FromMembers(SubSeq(s, 2, n - 1), EmptyMap))
        ELSE ParseError

\* line.trim().is_empty()
IsBlank(line) == \A i \in 1..Len(line) : line[i] = WS

RECURSIVE SplitLines(_, _)
\* BufRead::lines(): the text between newlines; a last line without a
\* newline is still a line, and a trailing newline starts no empty line.
SplitLines(bytes, curLine) ==
    IF bytes = << >> THEN (IF curLine = << >> THEN << >> ELSE << curLine >>)
    ELSE IF Head(bytes) = NL THEN << curLine >> \o SplitLines(Tail(bytes), << >>)
    ELSE SplitLines(Tail(bytes), Append(curLine, Head(bytes)))

Lines(bytes) == SplitLines(bytes, << >>)

RECURSIVE LoadLines(_)
\* the loop of Collection::new: blank and unparsable lines are skipped
LoadLines(ls) ==
    IF ls = << >> THEN << >>
    ELSE (IF ~IsBlank(Head(ls)) /\ FromStr(Head(ls)) # ParseError
          THEN << FromStr(Head(ls)) >> ELSE << >>) \o LoadLines(Tail(ls))

Load(bytes) == LoadLines(Lines(bytes))

RECURSIVE Pad(_)
Pad(n) == IF n <= 0 THEN << >> ELSE <<NUL>> \o Pad(n - 1)

\* write(2) of bytes at offset pos of a file opened without O_APPEND
WriteAt(bytes, pos, new) ==
    LET old == IF pos > Len(bytes) THEN bytes \o Pad(pos - Len(bytes)) ELSE bytes
    IN  SubSeq(old, 1, pos) \o new \o SubSeq(old, pos + Len(new) + 1, Len(old))

RECURSIVE Dump(_)
\* the loop of persist: every document as one line
Dump(docs) == IF docs = << >> THEN << >> ELSE WriteLn(Head(docs)) \o Dump(Tail(docs))

(* ------------------------------ state --------------------------------- *)
VARIABLES
    data,        \* Collection.data: the Vec<Value> behind the RwLock
    dataLock,    \* the RwLock of data: [w |-> writing thread or 0, r |-> readers]
    file,        \* the bytes of the collection's file
    wpos,        \* offset of the write handle held by Collection.writer
    writerLock,  \* the Mutex of writer: the owning thread or 0
    pc,          \* where each thread stands in its current call
    cur,         \* each thread's current (or last) call and its arguments
    ret,         \* what each thread's last call returned
    nextId,      \* the identifiers Uuid::new_v4 has handed out, as a counter
    calls,       \* calls issued so far
    last,        \* sequential client: its latest call, with data and file as
                 \* they were when the call was made
    prev,        \* sequential client: the operation called before `last`
    expect,      \* sequential client: the documents inserted so far, tagged
                 \* with the ids insert returned, while nothing else was called
    fresh,       \* sequential client: the collection began with an empty file
    collections, \* Database.collections: name -> the Collection registered, or 0
    regLock,     \* the RwLock of collections
    insts,       \* every Collection that Database::collection has constructed
    dbFiles,     \* the files <root>/<name>.col
    handle,      \* the Arc<Collection> each thread got from its latest lookup
    ffi          \* the latest call through the C boundary: the function, whether
                 \* its handle was null, whether the handle was dereferenced,
                 \* how the call came out, and whether the Database is live

colVars == <<data, dataLock, file, wpos, writerLock>>
thrVars == <<pc, cur, ret, nextId, calls>>

\* name: the collection asked of a Database, or the operator of
\* find_with_operator
NoCall == [op |-> "none", doc |-> Null, id |-> 0, field |-> "", val |-> Null,
           name |-> ""]
NoRet == [k |-> "none", v |-> 0]
OkId(n) == [k |-> "id", v |-> n]
OkBool(b) == [k |-> "bool", v |-> b]
OkUnit == [k |-> "unit", v |-> 0]
\* defect: a value that is no object is answered with Ok and an id
InvalidAccepted == [k |-> "id", v |-> 0]
ErrInvalidInput == [k |-> "err", v |-> "InvalidInput"]
\* an std::io::Error carried to the caller by `?`
ErrIo == [k |-> "err", v |-> "Io"]
OkDocs(ds) == [k |-> "docs", v |-> ds]
OkHandle(h) == [k |-> "handle", v |-> h]

\* the documents callers insert: objects without and with an `_id` of their
\* own, and one value that is not an object
InsertDocs ==
    { Obj(EmptyMap),
      Obj([EmptyMap EXCEPT !["_id"] = Str(1), !["a"] = Num(1)]),
      Num(1), Str(1), Null, Bool(TRUE), EmptyArray }
\* the values callers pass to update_field
UpdateValues == { Str(2), Num(1) }
\* the ids callers pass to update_field and delete_by_id; 0 is the id of a
\* document written by an earlier run
CallIds == 0..MaxIds

Unlocked == [w |-> 0, r |-> {}]

(* ------------------------- Collection::new ---------------------------- *)
\* The state a Collection is built in over a file holding `bytes`: the
\* loaded lines, both locks free, the write handle at offset 0.
NewData(bytes) == Load(bytes)

InitCollection(bytes) ==
    /\ file = bytes
    /\ data = NewData(bytes)
    /\ dataLock = Unlocked
    /\ wpos = 0
    /\ writerLock = 0

InitThreads ==
    /\ pc = [t \in Threads |-> "idle"]
    /\ cur = [t \in Threads |-> NoCall]
    /\ ret = [t \in Threads |-> NoRet]
    /\ nextId = 1
    /\ calls = 0

(* ------------------------------ locks --------------------------------- *)
\* defect: a writer is let in while readers hold the lock
CanWriteOverReaders == dataLock.w = 0
\* RwLock::write(): no reader and no writer
CanWrite == dataLock.w = 0 /\ dataLock.r = {}
\* RwLock::read(): no writer
CanRead == dataLock.w = 0
\* defect: the writer is taken without waiting for its owner
LockWriterAtOnce == TRUE
\* Mutex::lock()
CanLockWriter == writerLock = 0

Goto(t, label) == pc' = [pc EXCEPT ![t] = label]
\* a call returns r: its frame (cur) is gone, the caller holds the result
Return(t, r) ==
    /\ pc' = [pc EXCEPT ![t] = "idle"]
    /\ ret' = [ret EXCEPT ![t] = r]
    /\ cur' = [cur EXCEPT ![t] = NoCall]

(* ------------------------- Collection::insert ------------------------- *)
\* defect: the generator hands out the identifier it handed out before
NewIdStale == IF nextId > 1 THEN nextId - 1 ELSE nextId

\* Uuid::new_v4(): an identifier never handed out before
NewId == nextId

\* defect: an `_id` the caller supplied is kept
TaggedKeep(d, id) == IF Get(d, "_id") = Absent THEN ObjInsert(d, "_id", Str(id)) ELSE d

\* lines 51-56: tag the document, or refuse a value that is not an object
Tagged(d, id) == ObjInsert(d, "_id", Str(id))

CallInsert(t, d) ==
    /\ pc[t] = "idle"
    /\ calls' = calls + 1
    /\ nextId' = nextId + 1
    /\ IF IsObject(d)
       THEN /\ cur' = [cur EXCEPT ![t] = [NoCall EXCEPT !.op = "insert",
                                           !.doc = Tagged(d, NewId), !.id = NewId]]
            /\ Goto(t, "ins_wlock")
            /\ ret' = [ret EXCEPT ![t] = NoRet]
       ELSE Return(t, ErrInvalidInput)
    /\ UNCHANGED colVars

\* line 59: self.writer.lock()
InsertLockWriter(t) ==
    /\ pc[t] = "ins_wlock" /\ CanLockWriter
    /\ writerLock' = t
    /\ Goto(t, "ins_append")
    /\ UNCHANGED <<data, dataLock, file, wpos, cur, ret, nextId, calls>>

\* line 63: file.seek(SeekFrom::End(0))
SeekEnd(bytes, pos) == Len(bytes)

\* defect: the writer guard is not dropped before the data lock is taken
InsertAppendHold(t) ==
    /\ pc[t] = "ins_append" /\ writerLock = t
    /\ LET at == SeekEnd(file, wpos)
           line == WriteLn(cur[t].doc)
       IN  /\ file' = WriteAt(file, at, line)
           /\ wpos' = at + Len(line)
    /\ Goto(t, "ins_dlock")
    /\ UNCHANGED <<data, dataLock, writerLock, cur, ret, nextId, calls>>

\* lines 61-67: seek to the end, write the line, flush, unlock
InsertAppend(t) ==
    /\ pc[t] = "ins_append" /\ writerLock = t
    /\ LET at == SeekEnd(file, wpos)
           line == WriteLn(cur[t].doc)
       IN  /\ file' = WriteAt(file, at, line)
           /\ wpos' = at + Len(line)
    /\ writerLock' = 0
    /\ Goto(t, "ins_dlock")
    /\ UNCHANGED <<data, dataLock, cur, ret, nextId, calls>>

\* line 69: self.data.write()
InsertLockData(t) ==
    /\ pc[t] = "ins_dlock" /\ CanWrite
    /\ dataLock' = [dataLock EXCEPT !.w = t]
    /\ Goto(t, "ins_push")
    /\ UNCHANGED <<data, file, wpos, writerLock, cur, ret, nextId, calls>>

\* line 70: data.push(document)
Push(docs, d) == Append(docs, d)

\* lines 70-72: push, unlock, Ok(id)
InsertPush(t) ==
    /\ pc[t] = "ins_push" /\ dataLock.w = t
    /\ data' = Push(data, cur[t].doc)
    /\ dataLock' = Unlocked
    /\ Return(t, OkId(cur[t].id))
    /\ UNCHANGED <<file, wpos, writerLock, nextId, calls>>

(* ---------------------- Collection::update_field ---------------------- *)
\* defect: the loops run on past the first match and keep the last one
LastMatch(docs, id) ==
    IF \E i \in 1..Len(docs) : HasId(docs[i], id)
    THEN CHOOSE i \in 1..Len(docs) :
            HasId(docs[i], id) /\ \A j \in (i + 1)..Len(docs) : ~HasId(docs[j], id)
    ELSE 0

\* the loops of update_field and delete_by_id: the first document, in
\* sequence order, whose `_id` is the string id; 0 when there is none
FirstMatch(docs, id) ==
    IF \E i \in 1..Len(docs) : HasId(docs[i], id)
    THEN CHOOSE i \in 1..Len(docs) :
            HasId(docs[i], id) /\ \A j \in 1..(i - 1) : ~HasId(docs[j], id)
    ELSE 0

\* defect: the `updated` flag is taken as set whether or not anything matched
UpdatedAlways(i) == TRUE

\* line 130 and line 137: `updated` is set when a document matched
Updated(i) == i # 0

\* line 129: obj.insert(field.to_string(), value) on the matching document
SetField(docs, i, f, val) == [docs EXCEPT ![i] = ObjInsert(docs[i], f, val)]

CallUpdateField(t, id, f, val) ==
    /\ pc[t] = "idle"
    /\ calls' = calls + 1
    /\ cur' = [cur EXCEPT ![t] = [NoCall EXCEPT !.op = "update_field",
                                   !.id = id, !.field = f, !.val = val]]
    /\ ret' = [ret EXCEPT ![t] = NoRet]
    /\ Goto(t, "upd_dlock")
    /\ UNCHANGED <<colVars, nextId>>

\* line 122: self.data.write()
UpdateLockData(t) ==
    /\ pc[t] = "upd_dlock" /\ CanWrite
    /\ dataLock' = [dataLock EXCEPT !.w = t]
    /\ Goto(t, "upd_scan")
    /\ UNCHANGED <<data, file, wpos, writerLock, cur, ret, nextId, calls>>

\* lines 123-143: set the field on the first match and go on to persist with
\* the lock dropped, or unlock and return Ok(false)
UpdateScan(t) ==
    /\ pc[t] = "upd_scan" /\ dataLock.w = t
    /\ LET i == FirstMatch(data, cur[t].id)
       IN  /\ data' = IF i # 0 THEN SetField(data, i, cur[t].field, cur[t].val)
                               ELSE data
           /\ IF Updated(i)
              THEN Goto(t, "per_rlock") /\ UNCHANGED <<ret, cur>>
              ELSE Return(t, OkBool(FALSE))
    /\ dataLock' = Unlocked
    /\ UNCHANGED <<file, wpos, writerLock, nextId, calls>>

(* ---------------------- Collection::delete_by_id ---------------------- *)
\* line 160: data.remove(index)
Remove(docs, i) == SubSeq(docs, 1, i - 1) \o SubSeq(docs, i + 1, Len(docs))

CallDeleteById(t, id) ==
    /\ pc[t] = "idle"
    /\ calls' = calls + 1
    /\ cur' = [cur EXCEPT ![t] = [NoCall EXCEPT !.op = "delete_by_id", !.id = id]]
    /\ ret' = [ret EXCEPT ![t] = NoRet]
    /\ Goto(t, "del_dlock")
    /\ UNCHANGED <<colVars, nextId>>

\* line 147: self.data.write()
DeleteLockData(t) ==
    /\ pc[t] = "del_dlock" /\ CanWrite
    /\ dataLock' = [dataLock EXCEPT !.w = t]
    /\ Goto(t, "del_scan")
    /\ UNCHANGED <<data, file, wpos, writerLock, cur, ret, nextId, calls>>

\* lines 148-166: remove the first match and go on to persist with the lock
\* dropped, or unlock and return Ok(false)
DeleteScan(t) ==
    /\ pc[t] = "del_scan" /\ dataLock.w = t
    /\ LET i == FirstMatch(data, cur[t].id)
       IN  IF i # 0
           THEN /\ data' = Remove(data, i)
                /\ Goto(t, "per_rlock")
                /\ UNCHANGED <<ret, cur>>
           ELSE /\ data' = data
                /\ Return(t, OkBool(FALSE))
    /\ dataLock' = Unlocked
    /\ UNCHANGED <<file, wpos, writerLock, nextId, calls>>

(* ------------------------- Collection::persist ------------------------ *)
CallPersist(t) ==
    /\ pc[t] = "idle"
    /\ calls' = calls + 1
    /\ cur' = [cur EXCEPT ![t] = [NoCall EXCEPT !.op = "persist"]]
    /\ ret' = [ret EXCEPT ![t] = NoRet]
    /\ Goto(t, "per_rlock")
    /\ UNCHANGED <<colVars, nextId>>

\* line 171: self.data.read()
PersistLockData(t) ==
    /\ pc[t] = "per_rlock" /\ CanRead
    /\ dataLock' = [dataLock EXCEPT !.r = @ \cup {t}]
    /\ Goto(t, "per_wlock")
    /\ UNCHANGED <<data, file, wpos, writerLock, cur, ret, nextId, calls>>

\* line 172: self.writer.lock(), with the read lock held
PersistLockWriter(t) ==
    /\ pc[t] = "per_wlock" /\ CanLockWriter
    /\ writerLock' = t
    /\ Goto(t, "per_trunc")
    /\ UNCHANGED <<data, dataLock, file, wpos, cur, ret, nextId, calls>>

\* line 177: file.set_len(0)
SetLen0(bytes) == << >>
\* defect: the seek to the start is missing, the offset stays where it was
SeekStay(pos) == pos

\* line 178: file.seek(SeekFrom::Start(0))
SeekStart(pos) == 0

\* lines 175-178: flush, truncate, seek to the start
PersistTruncate(t) ==
    /\ pc[t] = "per_trunc" /\ writerLock = t
    /\ file' = SetLen0(file)
    /\ wpos' = SeekStart(wpos)
    /\ Goto(t, "per_write")
    /\ UNCHANGED <<data, dataLock, writerLock, cur, ret, nextId, calls>>

\* what update_field, delete_by_id and persist return once persist is done
PersistResult(op) == IF op = "persist" THEN OkUnit ELSE OkBool(TRUE)

\* lines 181-187: write every document, flush, drop both guards
PersistWrite(t) ==
    /\ pc[t] = "per_write" /\ writerLock = t
    /\ LET out == Dump(data)
       IN  /\ file' = WriteAt(file, wpos, out)
           /\ wpos' = wpos + Len(out)
    /\ writerLock' = 0
    /\ dataLock' = [dataLock EXCEPT !.r = @ \ {t}]
    /\ Return(t, PersistResult(cur[t].op))
    /\ UNCHANGED <<data, nextId, calls>>

(* ------------------------ Collection::find_all ------------------------ *)
CallFindAll(t) ==
    /\ pc[t] = "idle"
    /\ calls' = calls + 1
    /\ cur' = [cur EXCEPT ![t] = [NoCall EXCEPT !.op = "find_all"]]
    /\ ret' = [ret EXCEPT ![t] = NoRet]
    /\ Goto(t, "fa_rlock")
    /\ UNCHANGED <<colVars, nextId>>

\* lines 76-77: read-lock, clone, unlock
FindAll(t) ==
    /\ pc[t] = "fa_rlock" /\ CanRead
    /\ Return(t, OkDocs(data))
    /\ UNCHANGED <<colVars, nextId, calls>>

(* ------------- Collection::find and find_with_operator --------------- *)
\* A string is the text of decimal digits: Str(n) holds the digits of n. A
\* &str argument is a sequence of digits (it may be empty).
RECURSIVE Digits(_)
Digits(n) == IF n < 10 THEN <<n>> ELSE Digits(n \div 10) \o <<n % 10>>
\* the text of a Value::String
StrText(x) == Digits(x.v)
\* line 109: n.to_string() of a Value::Number (a non-negative integer)
NumToString(x) == Digits(x.v)
Text(cs) == [k |-> "text", v |-> cs]

\* line 102: s.starts_with(value)
StartsWith(s, v) == Len(v) <= Len(s) /\ SubSeq(s, 1, Len(v)) = v
\* line 103: s.ends_with(value)
EndsWith(s, v) == Len(v) <= Len(s) /\ SubSeq(s, Len(s) - Len(v) + 1, Len(s)) = v
\* defect: `like` is taken as a prefix match
ContainsAtStart(s, v) == StartsWith(s, v)
\* line 101: s.contains(value)
Contains(s, v) == \E i \in 0..(Len(s) - Len(v)) : SubSeq(s, i + 1, i + Len(v)) = v

\* lines 84-87: the filter of find
FindMatch(d, field, value) ==
    LET x == Get(d, field)
    IN  IF x.k = "str" THEN StrText(x) = value ELSE FALSE

\* lines 97-115: the filter of find_with_operator
OperatorMatch(d, field, value, operator) ==
    LET x == Get(d, field)
    IN  CASE x.k = "str" ->
               ( CASE operator \in {"=", "==", "eq"} -> StrText(x) = value
                   [] operator \in {"like", "LIKE", "contains"} -> Contains(StrText(x), value)
                   [] operator = "starts_with" -> StartsWith(StrText(x), value)
                   [] operator = "ends_with" -> EndsWith(StrText(x), value)
                   [] OTHER -> FALSE )
          [] x.k = "num" ->
               IF operator = "=" \/ operator = "==" \/ operator = "eq"
               THEN NumToString(x) = value
               ELSE FALSE
          [] OTHER -> FALSE

\* data.iter().filter(..).cloned().collect()
find(docs, field, value) == SelectSeq(docs, LAMBDA d : FindMatch(d, field, value))
find_with_operator(docs, field, value, operator) ==
    SelectSeq(docs, LAMBDA d : OperatorMatch(d, field, value, operator))

CallFind(t, field, value) ==
    /\ pc[t] = "idle"
    /\ calls' = calls + 1
    /\ cur' = [cur EXCEPT ![t] = [NoCall EXCEPT !.op = "find", !.field = field,
                                                !.val = Text(value)]]
    /\ ret' = [ret EXCEPT ![t] = NoRet]
    /\ Goto(t, "fi_rlock")
    /\ UNCHANGED <<colVars, nextId>>

\* lines 81-90: read-lock, filter, unlock
Find(t) ==
    /\ pc[t] = "fi_rlock" /\ CanRead
    /\ Return(t, OkDocs(find(data, cur[t].field, cur[t].val.v)))
    /\ UNCHANGED <<colVars, nextId, calls>>

CallFindWithOperator(t, field, value, operator) ==
    /\ pc[t] = "idle"
    /\ calls' = calls + 1
    /\ cur' = [cur EXCEPT ![t] = [NoCall EXCEPT !.op = "find_with_operator",
                                                !.field = field, !.val = Text(value),
                                                !.name = operator]]
    /\ ret' = [ret EXCEPT ![t] = NoRet]
    /\ Goto(t, "fo_rlock")
    /\ UNCHANGED <<colVars, nextId>>

\* lines 94-118: read-lock, filter, unlock
FindWithOperator(t) ==
    /\ pc[t] = "fo_rlock" /\ CanRead
    /\ Return(t, OkDocs(find_with_operator(data, cur[t].field, cur[t].val.v,
                                           cur[t].name)))
    /\ UNCHANGED <<colVars, nextId, calls>>

(* --------------------- threads sharing a Collection ------------------- *)
\* Several threads call into one Collection built over an empty file.
Budget == calls < MaxCalls
IdBudget == nextId <= MaxIds

seqVars == <<last, prev, expect, fresh>>
dbVars == <<collections, regLock, insts, dbFiles, handle>>
vars == <<data, dataLock, file, wpos, writerLock, pc, cur, ret, nextId, calls,
          last, prev, expect, fresh, collections, regLock, insts, dbFiles, handle,
          ffi>>

\* the names callers ask a Database for
Names == {"x", "y"}

\* Database::new: an empty registry under a root directory
InitDatabase ==
    /\ collections = [n \in Names |-> 0]
    /\ regLock = Unlocked
    /\ insts = << >>
    /\ dbFiles = [n \in Names |-> << >>]
    /\ handle = [t \in Threads |-> 0]

NoLast == [op |-> "none", doc |-> Null, id |-> 0, field |-> "", val |-> Null,
           data0 |-> << >>, file0 |-> << >>]
\* no call made yet through the C boundary; db: the Database handle is live
NoFfi == [fn |-> "none", null |-> FALSE, deref |-> FALSE, out |-> "none",
          db |-> TRUE]
InitSeq(bytes) ==
    /\ ffi = NoFfi
    /\ last = NoLast
    /\ prev = "none"
    /\ expect = [ok |-> bytes = << >>, docs |-> << >>]
    /\ fresh = (bytes = << >>)

Init == InitCollection(<< >>) /\ InitThreads /\ InitSeq(<< >>) /\ InitDatabase

\* the sequential client's record is not kept when threads run together
Conc(A) == A /\ UNCHANGED <<seqVars, dbVars, ffi>>

\* the values threads insert: the objects, and one value that is no object
ThreadDocs == { d \in InsertDocs : IsObject(d) \/ d = Num(1) }

Next ==
    \E t \in Threads :
        \/ \E d \in ThreadDocs : Conc(Budget /\ IdBudget /\ CallInsert(t, d))
        \/ \E id \in CallIds \ {0}, f \in Fields :
              Conc(Budget /\ CallUpdateField(t, id, f, Str(2)))
        \/ \E id \in CallIds \ {0} : Conc(Budget /\ CallDeleteById(t, id))
        \/ Conc(Budget /\ CallPersist(t))
        \/ Conc(InsertLockWriter(t)) \/ Conc(InsertAppend(t))
        \/ Conc(InsertLockData(t)) \/ Conc(InsertPush(t))
        \/ Conc(UpdateLockData(t)) \/ Conc(UpdateScan(t))
        \/ Conc(DeleteLockData(t)) \/ Conc(DeleteScan(t))
        \/ Conc(PersistLockData(t)) \/ Conc(PersistLockWriter(t))
        \/ Conc(PersistTruncate(t)) \/ Conc(PersistWrite(t))

Spec == Init /\ [][Next]_vars

(* ----------------------- one sequential client ------------------------ *)
\* Thread 1 alone calls into a Collection built over a file an earlier run
\* may have left, and may drop the Collection and build it again over the
\* same file. `last`, `prev` and `expect` record what the client did.
OldDoc == Obj([EmptyMap EXCEPT !["_id"] = Str(0)])
OldDoc2 == Obj([EmptyMap EXCEPT !["_id"] = Str(0), !["a"] = Num(1)])
\* the files an earlier run may have left: none, one with a blank line, one
\* with a torn line and an empty line, one with a line that is no object and
\* two documents of the same `_id`
InitFiles ==
    { << >>,
      <<WS, NL>> \o WriteLn(OldDoc),
      <<LB, KV("a", Num(1)), NL>> \o WriteLn(OldDoc) \o <<NL>>,
      WriteLn(Num(1)) \o WriteLn(OldDoc) \o WriteLn(OldDoc2) }

Made(op, d, id, f, val) ==
    /\ last' = [op |-> op, doc |-> d, id |-> id, field |-> f, val |-> val,
                data0 |-> data, file0 |-> file]
    /\ prev' = last.op
    /\ fresh' = fresh
    /\ UNCHANGED <<dbVars, ffi>>

Void == [ok |-> FALSE, docs |-> << >>]

SeqInsert ==
    \E d \in InsertDocs :
        Budget /\ IdBudget /\ CallInsert(1, d) /\ Made("insert", d, 0, "", Null) /\ expect' = expect

\* a caller cannot name an identifier that Uuid::new_v4 has yet to draw
Known(val) == val.k = "str" => val.v < nextId

SeqUpdateField ==
    \E id \in CallIds, f \in Fields, val \in UpdateValues :
        Budget /\ Known(val) /\ CallUpdateField(1, id, f, val) /\ Made("update_field", Null, id, f, val)
        /\ expect' = Void

SeqDeleteById ==
    \E id \in CallIds :
        Budget /\ CallDeleteById(1, id) /\ Made("delete_by_id", Null, id, "", Null)
        /\ expect' = Void

SeqPersist == Budget /\ CallPersist(1) /\ Made("persist", Null, 0, "", Null) /\ expect' = expect

SeqFindAll == Budget /\ CallFindAll(1) /\ Made("find_all", Null, 0, "", Null) /\ expect' = expect

\* Collection::new over the file of the Collection just dropped
SeqReopen ==
    /\ pc[1] = "idle" /\ Budget
    /\ calls' = calls + 1
    /\ file' = file
    /\ data' = NewData(file)
    /\ dataLock' = Unlocked
    /\ wpos' = 0
    /\ writerLock' = 0
    /\ ret' = [ret EXCEPT ![1] = NoRet]
    /\ Made("new", Null, 0, "", Null) /\ expect' = expect
    /\ UNCHANGED <<pc, cur, nextId>>

\* a step of the call in flight; a returning insert adds its document,
\* tagged with the id it returned, to `expect`
Solo(A) ==
    /\ A
    /\ expect' = IF expect.ok /\ last.op = "insert" /\ ret'[1].k = "id"
                 THEN [expect EXCEPT !.docs =
                          Append(@, ObjInsert(last.doc, "_id", Str(ret'[1].v)))]
                 ELSE expect
    /\ UNCHANGED <<last, prev, fresh, dbVars, ffi>>

InitSeqSpec ==
    \E bytes \in InitFiles :
        InitCollection(bytes) /\ InitThreads /\ InitSeq(bytes) /\ InitDatabase

SeqNext ==
    \/ SeqInsert \/ SeqUpdateField \/ SeqDeleteById \/ SeqPersist \/ SeqFindAll
    \/ SeqReopen
    \/ Solo(InsertLockWriter(1)) \/ Solo(InsertAppend(1))
    \/ Solo(InsertLockData(1)) \/ Solo(InsertPush(1))
    \/ Solo(UpdateLockData(1)) \/ Solo(UpdateScan(1))
    \/ Solo(DeleteLockData(1)) \/ Solo(DeleteScan(1))
    \/ Solo(PersistLockData(1)) \/ Solo(PersistLockWriter(1))
    \/ Solo(PersistTruncate(1)) \/ Solo(PersistWrite(1))
    \/ Solo(FindAll(1))

SpecSeq == InitSeqSpec /\ [][SeqNext]_vars

(* ------------------- a client whose disk may fail --------------------- *)
\* The sequential client again, over a disk that may refuse a seek, a
\* truncation or a write.  A refused write leaves the bytes that reached the
\* file before it.  After an error the client drops the Collection and
\* builds a new one over the file.
Failed(r) == r.k = "err" /\ r.v = "Io"

\* lines 61-66: the seek or the write of the line fails, `?` returns the error
InsertAppendFail(t) ==
    /\ pc[t] = "ins_append" /\ writerLock = t
    /\ \E n \in 0..(Len(WriteLn(cur[t].doc)) - 1) :
          LET at == SeekEnd(file, wpos)
          IN  /\ file' = WriteAt(file, at, SubSeq(WriteLn(cur[t].doc), 1, n))
              /\ wpos' = at + n
    /\ writerLock' = 0
    /\ Return(t, ErrIo)
    /\ UNCHANGED <<data, dataLock, nextId, calls>>

\* lines 175-177: the flush or set_len fails, the file is as it was
PersistFailTruncate(t) ==
    /\ pc[t] = "per_trunc" /\ writerLock = t
    /\ writerLock' = 0
    /\ dataLock' = [dataLock EXCEPT !.r = @ \ {t}]
    /\ Return(t, ErrIo)
    /\ UNCHANGED <<data, file, wpos, nextId, calls>>

\* defect: the error of persist is dropped and the call reports success
PersistFailSilent(t) ==
    /\ pc[t] = "per_write" /\ writerLock = t
    /\ \E n \in 0..(Len(Dump(data)) - 1) \cup {0} :
          /\ file' = WriteAt(file, wpos, SubSeq(Dump(data), 1, n))
          /\ wpos' = wpos + n
    /\ writerLock' = 0
    /\ dataLock' = [dataLock EXCEPT !.r = @ \ {t}]
    /\ Return(t, PersistResult(cur[t].op))
    /\ UNCHANGED <<data, nextId, calls>>

\* lines 178-185: the seek, a write or the last flush fails after set_len
PersistFailWrite(t) ==
    /\ pc[t] = "per_write" /\ writerLock = t
    /\ \E n \in 0..(Len(Dump(data)) - 1) \cup {0} :
          /\ file' = WriteAt(file, wpos, SubSeq(Dump(data), 1, n))
          /\ wpos' = wpos + n
    /\ writerLock' = 0
    /\ dataLock' = [dataLock EXCEPT !.r = @ \ {t}]
    /\ Return(t, ErrIo)
    /\ UNCHANGED <<data, nextId, calls>>

Working == ~Failed(ret[1])

IoNext ==
    \/ (Working /\ SeqInsert) \/ (Working /\ SeqUpdateField)
    \/ (Working /\ SeqDeleteById) \/ (Working /\ SeqPersist)
    \/ (Working /\ SeqFindAll)
    \/ SeqReopen
    \/ Solo(InsertLockWriter(1)) \/ Solo(InsertAppend(1))
    \/ Solo(InsertLockData(1)) \/ Solo(InsertPush(1))
    \/ Solo(UpdateLockData(1)) \/ Solo(UpdateScan(1))
    \/ Solo(DeleteLockData(1)) \/ Solo(DeleteScan(1))
    \/ Solo(PersistLockData(1)) \/ Solo(PersistLockWriter(1))
    \/ Solo(PersistTruncate(1)) \/ Solo(PersistWrite(1))
    \/ Solo(FindAll(1))
    \/ Solo(InsertAppendFail(1)) \/ Solo(PersistFailTruncate(1))
    \/ Solo(PersistFailWrite(1))

SpecIo == InitSeqSpec /\ [][IoNext]_vars

(* -------------------- Collection::new over any file ------------------- *)
\* One caller constructs a Collection over a file of up to MaxFileLen tokens:
\* braces, a member, a scalar, white space, newlines and bytes that are no
\* UTF-8.
Alphabet == { LB, RB, NL, WS, BAD, KV("a", Num(1)), SC(Num(1)) }
LoadFiles == UNION { [1..n -> Alphabet] : n \in 0..MaxFileLen }

ErrInvalidData == [k |-> "err", v |-> "InvalidData"]

\* line 29: `let line = line?;` BufRead::lines yields Err(InvalidData) for
\* a line that is no valid UTF-8, and `?` returns it from the constructor
ReadLineFails(bytes) == \E i \in 1..Len(bytes) : bytes[i] = BAD

\* lines 19-47
CollectionNew(t) ==
    /\ pc[t] = "idle" /\ Budget
    /\ calls' = calls + 1
    /\ IF ReadLineFails(file)
       THEN /\ data' = << >>
            /\ ret' = [ret EXCEPT ![t] = ErrInvalidData]
       ELSE /\ data' = NewData(file)
            /\ ret' = [ret EXCEPT ![t] = OkUnit]
    /\ dataLock' = Unlocked
    /\ wpos' = 0
    /\ writerLock' = 0
    /\ Made("new", Null, 0, "", Null) /\ expect' = expect
    /\ UNCHANGED <<file, pc, cur, nextId>>

\* no Collection yet, only the file
InitLoad ==
    /\ file \in LoadFiles
    /\ data = << >> /\ dataLock = Unlocked /\ wpos = 0 /\ writerLock = 0
    /\ InitThreads /\ InitSeq(<< >>) /\ InitDatabase

LoadNext == CollectionNew(1)

SpecLoad == InitLoad /\ [][LoadNext]_vars

(* ------------- threads that only update and delete -------------------- *)
\* Several threads call update_field and delete_by_id on a Collection built
\* over a file of documents. The end of persist is taken in the order Rust
\* drops the two guards: `writer` (declared last) first, `data` after it.
\* `last` records memory and file as they were when a persist finished
\* writing ("written") and when a call that ran persist returned
\* ("returned").
MutFiles == { Dump(<<Doc(1, Num(1)), Doc(1, Absent), Doc(2, Absent)>>) }

\* lines 181-187: write every document, flush; the writer guard is dropped
PersistWriteUnlock(t) ==
    /\ pc[t] = "per_write" /\ writerLock = t
    /\ LET out == Dump(data)
       IN  /\ file' = WriteAt(file, wpos, out)
           /\ wpos' = wpos + Len(out)
    /\ writerLock' = 0
    /\ Goto(t, "per_drop")
    /\ UNCHANGED <<data, dataLock, cur, ret, nextId, calls>>

\* line 188: the data guard is dropped and the call returns
PersistDropData(t) ==
    /\ pc[t] = "per_drop" /\ t \in dataLock.r
    /\ dataLock' = [dataLock EXCEPT !.r = @ \ {t}]
    /\ Return(t, PersistResult(cur[t].op))
    /\ UNCHANGED <<data, file, wpos, writerLock, nextId, calls>>

Seen(A, what) ==
    /\ A
    /\ last' = [NoLast EXCEPT !.op = what, !.data0 = data', !.file0 = file']
    /\ UNCHANGED <<prev, expect, fresh, dbVars, ffi>>

InitMut ==
    \E bytes \in MutFiles :
        InitCollection(bytes) /\ InitThreads /\ InitSeq(bytes) /\ InitDatabase

MutNext ==
    \E t \in Threads :
        \/ \E id \in CallIds \ {0} :
              Conc(Budget /\ CallUpdateField(t, id, "a", Str(2)))
        \/ \E id \in CallIds \ {0} : Conc(Budget /\ CallDeleteById(t, id))
        \/ Conc(UpdateLockData(t)) \/ Conc(UpdateScan(t))
        \/ Conc(DeleteLockData(t)) \/ Conc(DeleteScan(t))
        \/ Conc(PersistLockData(t)) \/ Conc(PersistLockWriter(t))
        \/ Conc(PersistTruncate(t))
        \/ Seen(PersistWriteUnlock(t), "written")
        \/ Seen(PersistDropData(t), "returned")

SpecMut == InitMut /\ [][MutNext]_vars

(* ----------------------- a client that queries ----------------------- *)
\* One caller runs find and find_with_operator over collections whose
\* field "a" is a string, a number, a boolean, null or absent, and over a
\* file with a line that is no object.
FindFiles ==
    { << >>,
      Dump(<<Doc(1, Str(12)), Doc(2, Num(12)), Doc(12, Str(121))>>),
      Dump(<<Doc(21, Null), Doc(1, Absent), Num(12), Doc(2, Str(2)), Doc(12, Str(12))>>),
      Dump(<<Doc(1, Bool(TRUE)), Doc(2, Str(1)), Doc(2, Str(21)), Doc(3, Num(1))>>) }
\* the &str arguments callers pass
FindValues == { << >>, <<1>>, <<2>>, <<1, 2>>, <<2, 1>> }
Operators == { "=", "==", "eq", "like", "LIKE", "contains", "starts_with",
               "ends_with", "ne", "EQ", "" }

MadeFind(op, f, value, operator) ==
    /\ last' = [op |-> op, doc |-> Null, id |-> 0, field |-> f, val |-> Text(value),
                operator |-> operator, data0 |-> data, file0 |-> file]
    /\ prev' = last.op
    /\ UNCHANGED <<fresh, expect, dbVars, ffi>>

SeqFind ==
    \E f \in Fields, value \in FindValues :
        Budget /\ CallFind(1, f, value) /\ MadeFind("find", f, value, "")

SeqFindWithOperator ==
    \E f \in Fields, value \in FindValues, operator \in Operators :
        /\ Budget /\ CallFindWithOperator(1, f, value, operator)
        /\ MadeFind("find_with_operator", f, value, operator)

InitFind ==
    \E bytes \in FindFiles :
        InitCollection(bytes) /\ InitThreads /\ InitSeq(bytes) /\ InitDatabase

FindNext ==
    \/ SeqFind \/ SeqFindWithOperator
    \/ Solo(Find(1)) \/ Solo(FindWithOperator(1))

SpecFind == InitFind /\ [][FindNext]_vars

(* ------------------ N threads, one insert each ------------------------ *)
\* Every thread inserts one document into a Collection built over an empty
\* file; once all inserts have returned (the threads are joined) any thread
\* may call find_all.
ObjectDocs == { d \in InsertDocs : IsObject(d) }
NotYetCalled(t) == pc[t] = "idle" /\ ret[t] = NoRet
AllInserted == nextId = NThreads + 1 /\ \A t \in Threads : pc[t] = "idle"

InsOnce(t) ==
    /\ nextId <= NThreads /\ NotYetCalled(t)
    /\ \E d \in ObjectDocs : CallInsert(t, d)

JoinedFindAll(t) == AllInserted /\ ret[t].k = "id" /\ CallFindAll(t)

InsNext ==
    \E t \in Threads :
        \/ Conc(InsOnce(t))
        \/ Conc(InsertLockWriter(t)) \/ Conc(InsertAppend(t))
        \/ Conc(InsertLockData(t)) \/ Conc(InsertPush(t))
        \/ Conc(JoinedFindAll(t)) \/ Conc(FindAll(t))

SpecIns == Init /\ [][InsNext]_vars

(* --------------------------- Database --------------------------------- *)
\* Threads ask one Database for collections by name and use the handles
\* they get. An insert or find_all through a handle is taken here as one
\* step on the instance behind it and on the file of its name.

\* defect: the second look under the write lock is left out
RecheckMiss(cols, name) == 0

\* line 29 and line 34: cols.get(name)
Lookup(cols, name) == cols[name]
Recheck(cols, name) == cols[name]

CallCollection(t, name) ==
    /\ pc[t] = "idle" /\ Budget
    /\ calls' = calls + 1
    /\ cur' = [cur EXCEPT ![t] = [NoCall EXCEPT !.op = "collection", !.name = name]]
    /\ ret' = [ret EXCEPT ![t] = NoRet]
    /\ Goto(t, "col_rlock")
    /\ UNCHANGED <<colVars, nextId, seqVars, dbVars>>

\* line 28: self.collections.read()
CollectionReadLock(t) ==
    /\ pc[t] = "col_rlock" /\ regLock.w = 0
    /\ regLock' = [regLock EXCEPT !.r = @ \cup {t}]
    /\ Goto(t, "col_lookup")
    /\ UNCHANGED <<colVars, cur, ret, nextId, calls, seqVars,
                   collections, insts, dbFiles, handle>>

\* lines 29-32: the fast path, or on to the write lock with the read lock
\* dropped
CollectionLookup(t) ==
    /\ pc[t] = "col_lookup" /\ t \in regLock.r
    /\ regLock' = [regLock EXCEPT !.r = @ \ {t}]
    /\ IF Lookup(collections, cur[t].name) # 0
       THEN /\ handle' = [handle EXCEPT ![t] = Lookup(collections, cur[t].name)]
            /\ Return(t, OkHandle(Lookup(collections, cur[t].name)))
       ELSE /\ Goto(t, "col_wlock")
            /\ UNCHANGED <<handle, ret, cur>>
    /\ UNCHANGED <<colVars, nextId, calls, seqVars, collections, insts, dbFiles>>

\* line 33: self.collections.write()
CollectionWriteLock(t) ==
    /\ pc[t] = "col_wlock" /\ regLock.w = 0 /\ regLock.r = {}
    /\ regLock' = [regLock EXCEPT !.w = t]
    /\ Goto(t, "col_create")
    /\ UNCHANGED <<colVars, cur, ret, nextId, calls, seqVars,
                   collections, insts, dbFiles, handle>>

\* lines 34-40: look again; if the name is still missing, construct the
\* Collection over <root>/<name>.col and register it
CollectionCreate(t) ==
    /\ pc[t] = "col_create" /\ regLock.w = t
    /\ regLock' = Unlocked
    /\ LET name == cur[t].name
           found == Recheck(collections, name)
           made == Len(insts) + 1
       IN  IF found # 0
           THEN /\ handle' = [handle EXCEPT ![t] = found]
                /\ Return(t, OkHandle(found))
                /\ UNCHANGED <<collections, insts>>
           ELSE /\ insts' = Append(insts, [name |-> name,
                                           data |-> NewData(dbFiles[name])])
                /\ collections' = [collections EXCEPT ![name] = made]
                /\ handle' = [handle EXCEPT ![t] = made]
                /\ Return(t, OkHandle(made))
    /\ UNCHANGED <<colVars, nextId, calls, seqVars, dbFiles>>

\* Collection::insert through the handle
HandleInsert(t, d) ==
    /\ pc[t] = "idle" /\ handle[t] # 0 /\ Budget /\ IdBudget /\ IsObject(d)
    /\ calls' = calls + 1
    /\ nextId' = nextId + 1
    /\ LET h == handle[t]
           name == insts[h].name
           doc == Tagged(d, NewId)
       IN  /\ dbFiles' = [dbFiles EXCEPT ![name] =
                             WriteAt(@, SeekEnd(@, 0), WriteLn(doc))]
           /\ insts' = [insts EXCEPT ![h].data = Push(@, doc)]
    /\ ret' = [ret EXCEPT ![t] = OkId(NewId)]
    /\ UNCHANGED <<colVars, pc, cur, seqVars, collections, regLock, handle>>

\* Collection::find_all through the handle
HandleFindAll(t) ==
    /\ pc[t] = "idle" /\ handle[t] # 0 /\ Budget
    /\ calls' = calls + 1
    /\ ret' = [ret EXCEPT ![t] = OkDocs(insts[handle[t]].data)]
    /\ UNCHANGED <<colVars, pc, cur, nextId, seqVars, dbVars>>

\* the Database used from Rust, not through the C boundary
Direct(A) == A /\ UNCHANGED ffi

DbNext ==
    \E t \in Threads :
        \/ \E name \in Names : Direct(CallCollection(t, name))
        \/ Direct(CollectionReadLock(t)) \/ Direct(CollectionLookup(t))
        \/ Direct(CollectionWriteLock(t)) \/ Direct(CollectionCreate(t))
        \/ \E d \in ObjectDocs : Direct(HandleInsert(t, d))
        \/ Direct(HandleFindAll(t))

SpecDb == Init /\ [][DbNext]_vars

(* ------------------ every operation, fairly scheduled ------------------ *)
\* Every thread makes one call, any of the operations of a Collection built
\* over a file with one document, or a lookup in the Database. A thread
\* that can take its next step is not held back for ever (the scheduler is
\* fair and the disk answers).
InitLive ==
    /\ InitCollection(WriteLn(OldDoc)) /\ InitThreads
    /\ InitSeq(WriteLn(OldDoc)) /\ InitDatabase

\* a step of the call thread t is in
LiveStep(t) ==
    \/ Conc(InsertLockWriter(t)) \/ Conc(InsertAppend(t))
    \/ Conc(InsertLockData(t)) \/ Conc(InsertPush(t))
    \/ Conc(UpdateLockData(t)) \/ Conc(UpdateScan(t))
    \/ Conc(DeleteLockData(t)) \/ Conc(DeleteScan(t))
    \/ Conc(PersistLockData(t)) \/ Conc(PersistLockWriter(t))
    \/ Conc(PersistTruncate(t)) \/ Conc(PersistWrite(t))
    \/ Conc(FindAll(t)) \/ Conc(Find(t)) \/ Conc(FindWithOperator(t))
    \/ Direct(CollectionReadLock(t)) \/ Direct(CollectionLookup(t))
    \/ Direct(CollectionWriteLock(t)) \/ Direct(CollectionCreate(t))

LiveNext ==
    \E t \in Threads :
        \/ Conc(NotYetCalled(t) /\ CallInsert(t, Obj(EmptyMap)))
        \/ Conc(NotYetCalled(t) /\ CallFindAll(t))
        \/ Conc(NotYetCalled(t) /\ CallFind(t, "a", <<2>>))
        \/ Conc(NotYetCalled(t) /\ CallFindWithOperator(t, "a", <<2>>, "eq"))
        \/ Conc(NotYetCalled(t) /\ CallUpdateField(t, 0, "a", Str(2)))
        \/ Conc(NotYetCalled(t) /\ CallDeleteById(t, 0))
        \/ Conc(NotYetCalled(t) /\ CallPersist(t))
        \/ Direct(NotYetCalled(t) /\ CallCollection(t, "x"))
        \/ Conc(InsertLockWriter(t)) \/ Conc(InsertAppend(t))
        \/ Conc(InsertLockData(t)) \/ Conc(InsertPush(t))
        \/ Conc(UpdateLockData(t)) \/ Conc(UpdateScan(t))
        \/ Conc(DeleteLockData(t)) \/ Conc(DeleteScan(t))
        \/ Conc(PersistLockData(t)) \/ Conc(PersistLockWriter(t))
        \/ Conc(PersistTruncate(t)) \/ Conc(PersistWrite(t))
        \/ Conc(FindAll(t)) \/ Conc(Find(t)) \/ Conc(FindWithOperator(t))
        \/ Direct(CollectionReadLock(t)) \/ Direct(CollectionLookup(t))
        \/ Direct(CollectionWriteLock(t)) \/ Direct(CollectionCreate(t))

SpecLive ==
    InitLive /\ [][LiveNext]_vars /\ \A t \in Threads : WF_vars(LiveStep(t))

(* --------------------------- the C boundary --------------------------- *)
\* Callers hold raw pointers: a Database handle from ruggy_open, collection
\* handles from ruggy_get_collection, strings from the query functions. A
\* null pointer is 0. Forming `&*ptr` from a null pointer is undefined
\* behaviour: the call crashes the process, or returns the failure value
\* when the reference is never used.
NullPtr == [k |-> "null", v |-> 0]
Crashed == [k |-> "crash", v |-> 0]
Alive == ffi.out # "crash"

Boundary(fn, isnull, deref, out) ==
    ffi' = [fn |-> fn, null |-> isnull, deref |-> deref, out |-> out, db |-> ffi.db]

\* a call that returns at once, touching neither Database nor Collection
Bounce(t, fn, isnull, deref, out, r) ==
    /\ pc[t] = "idle" /\ Budget
    /\ calls' = calls + 1
    /\ ret' = [ret EXCEPT ![t] = r]
    /\ Boundary(fn, isnull, deref, out)
    /\ UNCHANGED <<colVars, pc, cur, nextId, seqVars, dbVars>>

\* `let col = unsafe { &*col_arc_ptr };` with a null col
NullDeref(t, fn, outs) ==
    \E o \in outs :
        Bounce(t, fn, TRUE, TRUE, o, IF o = "crash" THEN Crashed ELSE NullPtr)

\* the handles a caller may pass: null, or the one it holds
Handles(t) == {0, handle[t]}

\* lines 25-31: a new Database with an empty registry
ruggy_open(t) ==
    /\ pc[t] = "idle" /\ Budget /\ ~ffi.db
    /\ calls' = calls + 1
    /\ collections' = [n \in Names |-> 0]
    /\ regLock' = Unlocked
    /\ ffi' = [fn |-> "ruggy_open", null |-> FALSE, deref |-> FALSE, out |-> "run",
               db |-> TRUE]
    /\ UNCHANGED <<colVars, pc, cur, ret, nextId, seqVars, insts, dbFiles, handle>>

\* lines 34-44
ruggy_get_collection(t, db, name) ==
    IF db = 0
    THEN Bounce(t, "ruggy_get_collection", TRUE, FALSE, "null", NullPtr)
    ELSE /\ ffi.db
         /\ CallCollection(t, name)
         /\ Boundary("ruggy_get_collection", FALSE, TRUE, "run")

\* Collection::update_field through the handle, the rewrite included
HandleUpdateField(t, id, f, val) ==
    /\ pc[t] = "idle" /\ handle[t] # 0 /\ Budget
    /\ calls' = calls + 1
    /\ LET h == handle[t]
           docs == insts[h].data
           i == FirstMatch(docs, id)
       IN  IF Updated(i)
           THEN /\ insts' = [insts EXCEPT ![h].data = SetField(docs, i, f, val)]
                /\ dbFiles' = [dbFiles EXCEPT ![insts[h].name] =
                                  Dump(SetField(docs, i, f, val))]
                /\ ret' = [ret EXCEPT ![t] = OkBool(TRUE)]
           ELSE /\ ret' = [ret EXCEPT ![t] = OkBool(FALSE)]
                /\ UNCHANGED <<insts, dbFiles>>
    /\ UNCHANGED <<colVars, pc, cur, nextId, seqVars, collections, regLock, handle>>

\* Collection::delete_by_id through the handle, the rewrite included
HandleDeleteById(t, id) ==
    /\ pc[t] = "idle" /\ handle[t] # 0 /\ Budget
    /\ calls' = calls + 1
    /\ LET h == handle[t]
           docs == insts[h].data
           i == FirstMatch(docs, id)
       IN  IF i # 0
           THEN /\ insts' = [insts EXCEPT ![h].data = Remove(docs, i)]
                /\ dbFiles' = [dbFiles EXCEPT ![insts[h].name] = Dump(Remove(docs, i))]
                /\ ret' = [ret EXCEPT ![t] = OkBool(TRUE)]
           ELSE /\ ret' = [ret EXCEPT ![t] = OkBool(FALSE)]
                /\ UNCHANGED <<insts, dbFiles>>
    /\ UNCHANGED <<colVars, pc, cur, nextId, seqVars, collections, regLock, handle>>

\* Collection::find and find_with_operator through the handle
HandleFind(t, f, value) ==
    /\ pc[t] = "idle" /\ handle[t] # 0 /\ Budget
    /\ calls' = calls + 1
    /\ ret' = [ret EXCEPT ![t] = OkDocs(find(insts[handle[t]].data, f, value))]
    /\ UNCHANGED <<colVars, pc, cur, nextId, seqVars, dbVars>>

HandleFindWithOperator(t, f, value, operator) ==
    /\ pc[t] = "idle" /\ handle[t] # 0 /\ Budget
    /\ calls' = calls + 1
    /\ ret' = [ret EXCEPT ![t] =
                  OkDocs(find_with_operator(insts[handle[t]].data, f, value, operator))]
    /\ UNCHANGED <<colVars, pc, cur, nextId, seqVars, dbVars>>

\* lines 47-61: a value that is no object makes insert fail, the caller gets null
ruggy_insert(t, col, d) ==
    IF col = 0
    THEN NullDeref(t, "ruggy_insert", {"crash", "null"})
    ELSE IF IsObject(d)
         THEN HandleInsert(t, d) /\ Boundary("ruggy_insert", FALSE, TRUE, "run")
         ELSE Bounce(t, "ruggy_insert", FALSE, TRUE, "null", NullPtr)

\* lines 64-71
ruggy_find_all(t, col) ==
    IF col = 0
    THEN NullDeref(t, "ruggy_find_all", {"crash"})
    ELSE HandleFindAll(t) /\ Boundary("ruggy_find_all", FALSE, TRUE, "run")

\* lines 74-84
ruggy_find(t, col, f, value) ==
    IF col = 0
    THEN NullDeref(t, "ruggy_find", {"crash"})
    ELSE HandleFind(t, f, value) /\ Boundary("ruggy_find", FALSE, TRUE, "run")

\* lines 87-103
ruggy_find_op(t, col, f, value, operator) ==
    IF col = 0
    THEN NullDeref(t, "ruggy_find_op", {"crash"})
    ELSE /\ HandleFindWithOperator(t, f, value, operator)
         /\ Boundary("ruggy_find_op", FALSE, TRUE, "run")

\* lines 106-136
ruggy_update_field(t, col, id, f, val) ==
    IF col = 0
    THEN NullDeref(t, "ruggy_update_field", {"crash", "0"})
    ELSE /\ HandleUpdateField(t, id, f, val)
         /\ Boundary("ruggy_update_field", FALSE, TRUE, "run")

\* lines 139-157
ruggy_delete(t, col, id) ==
    IF col = 0
    THEN NullDeref(t, "ruggy_delete", {"crash"})
    ELSE HandleDeleteById(t, id) /\ Boundary("ruggy_delete", FALSE, TRUE, "run")

\* lines 162-166: a null db is left alone; otherwise the Database and its
\* registry are dropped, the collections live on through the handles
ruggy_db_free(t, db) ==
    IF db = 0
    THEN Bounce(t, "ruggy_db_free", TRUE, FALSE, "noop", ret[t])
    ELSE /\ ffi.db /\ \A u \in Threads : pc[u] = "idle"
         /\ Budget
         /\ calls' = calls + 1
         /\ collections' = [n \in Names |-> 0]
         /\ ffi' = [fn |-> "ruggy_db_free", null |-> FALSE, deref |-> TRUE,
                    out |-> "run", db |-> FALSE]
         /\ UNCHANGED <<colVars, pc, cur, ret, nextId, seqVars, regLock, insts,
                        dbFiles, handle>>

\* lines 169-174: a null col is left alone; otherwise the Arc is dropped
ruggy_col_free(t, col) ==
    IF col = 0
    THEN Bounce(t, "ruggy_col_free", TRUE, FALSE, "noop", ret[t])
    ELSE /\ pc[t] = "idle" /\ Budget
         /\ calls' = calls + 1
         /\ handle' = [handle EXCEPT ![t] = 0]
         /\ Boundary("ruggy_col_free", FALSE, TRUE, "run")
         /\ UNCHANGED <<colVars, pc, cur, ret, nextId, seqVars, collections,
                        regLock, insts, dbFiles>>

\* lines 177-181: a null string is left alone; otherwise the string a query
\* or an insert returned is released
ruggy_str_free(t, str) ==
    IF str = 0
    THEN Bounce(t, "ruggy_str_free", TRUE, FALSE, "noop", ret[t])
    ELSE /\ ret[t].k \in {"id", "docs"}
         /\ Bounce(t, "ruggy_str_free", FALSE, TRUE, "run", NoRet)

\* nothing runs in a process that has crashed
Live(A) == Alive /\ A

FfiNext ==
    \E t \in Threads :
        \/ Live(ruggy_open(t))
        \/ \E db \in {0, 1}, name \in Names : Live(ruggy_get_collection(t, db, name))
        \/ Live(Direct(CollectionReadLock(t))) \/ Live(Direct(CollectionLookup(t)))
        \/ Live(Direct(CollectionWriteLock(t))) \/ Live(Direct(CollectionCreate(t)))
        \/ \E col \in Handles(t), d \in InsertDocs : Live(ruggy_insert(t, col, d))
        \/ \E col \in Handles(t) : Live(ruggy_find_all(t, col))
        \/ \E col \in Handles(t) : Live(ruggy_find(t, col, "_id", <<1>>))
        \/ \E col \in Handles(t) : Live(ruggy_find_op(t, col, "_id", <<1>>, "eq"))
        \/ \E col \in Handles(t) : Live(ruggy_update_field(t, col, 1, "a", Str(2)))
        \/ \E col \in Handles(t) : Live(ruggy_delete(t, col, 1))
        \/ \E db \in {0, 1} : Live(ruggy_db_free(t, db))
        \/ \E col \in Handles(t) : Live(ruggy_col_free(t, col))
        \/ \E str \in {0, 1} : Live(ruggy_str_free(t, str))

SpecFfi == Init /\ [][FfiNext]_vars

(* ============================ properties ============================== *)
IdleAll == \A t \in Threads : pc[t] = "idle"
Range(q) == { q[i] : i \in 1..Len(q) }
\* the document of `docs` whose `_id` is the string n, if any
HoldsId(docs, n) == \E i \in 1..Len(docs) : HasId(docs[i], n)
\* no two documents of `docs` carry the same `_id`
UniqueIds(docs) ==
    \A i, j \in 1..Len(docs) :
        (i # j /\ Get(docs[i], "_id") # Absent)
            => Get(docs[i], "_id") # Get(docs[j], "_id")

\* the same documents, each as many times, in whatever order
Count(docs, d) == Cardinality({ i \in 1..Len(docs) : docs[i] = d })
SameDocuments(p, q) ==
    \A d \in Range(p) \cup Range(q) : Count(p, d) = Count(q, d)
\* a persist has truncated the file and not yet written it back
Rewriting == \E t \in Threads : pc[t] = "per_write"

\* C1: whenever no operation is in flight, the file parsed line by line
\* (blank lines ignored) is exactly the in-memory sequence. Stated here
\* without the order, which two overlapping inserts are documented to leave
\* open: the file and the memory hold the same documents.
C1_FileIsMemoryWhenIdle == IdleAll => SameDocuments(Load(file), data)

\* C2: durability precedes visibility: once insert has returned an id, the
\* document of that id, as long as it is in the in-memory sequence, has a
\* line in the file. Stated here outside the window in which a persist has
\* emptied the file and is about to write it back.
C2_InsertedIsDurable ==
    \A t \in Threads :
        (~Rewriting /\ ret[t].k = "id" /\ HoldsId(data, ret[t].v))
            => HoldsId(Load(file), ret[t].v)

\* C3: when every one of the N threads has returned from its one insert,
\* memory (and any find_all made from then on) holds exactly N documents of
\* pairwise distinct `_id`, and the file holds exactly N lines, each the
\* well-formed line of one inserted document, none lost, torn or merged.
C3_ConcurrentInserts ==
    AllInserted =>
        /\ Len(data) = NThreads
        /\ UniqueIds(data)
        /\ \A n \in 1..NThreads : HoldsId(data, n)
        /\ Len(Lines(file)) = NThreads
        /\ \A i \in 1..Len(Lines(file)) : IsObject(FromStr(Lines(file)[i]))
        /\ Range(Lines(file)) = { to_string(d) : d \in Range(data) }
        /\ \A t \in Threads :
              ret[t].k = "docs" => (Len(ret[t].v) = NThreads /\ UniqueIds(ret[t].v)
                                    /\ Range(ret[t].v) = Range(data))
C3_Witness ==
    /\ AllInserted
    /\ \E t \in Threads : ret[t].k = "docs"
    /\ Load(file) # data

Built(name) == { i \in 1..Len(insts) : insts[i].name = name }

\* C4: however many threads ask one Database for the same name at once, at
\* most one Collection is ever constructed and registered for that name,
\* every caller gets a handle to that instance, and so an insert through one
\* handle is in what find_all returns through any other handle of the name.
C4_OneInstancePerName ==
    /\ \A name \in Names :
          /\ Cardinality(Built(name)) <= 1
          /\ collections[name] # 0 => Built(name) = {collections[name]}
    /\ \A t \in Threads :
          /\ handle[t] # 0 => handle[t] = collections[insts[handle[t]].name]
          /\ (ret[t].k = "handle" /\ pc[t] = "idle") => ret[t].v = handle[t]
    /\ \A t, u \in Threads :
          (ret[t].k = "id" /\ handle[t] # 0 /\ handle[u] # 0
           /\ insts[handle[u]].name = insts[handle[t]].name)
             => HoldsId(insts[handle[u]].data, ret[t].v)
C4_Witness ==
    \E t, u \in Threads :
        /\ t # u /\ handle[t] # 0 /\ handle[u] = handle[t]
        /\ ret[t].k = "id" /\ HoldsId(insts[handle[u]].data, ret[t].v)

\* C5: in a collection that began empty, after any sequence of insert,
\* update_field and delete_by_id calls, no two documents in memory have the
\* same `_id`.
C5_UniqueIds == fresh => UniqueIds(data)

\* C6: update_field never changes the `_id` of any document: when it has
\* returned true, every document has the `_id` it had when the call was
\* made, and the updated one still has `_id` equal to id.
C6_UpdateKeepsId ==
    (last.op = "update_field" /\ pc[1] = "idle" /\ ret[1] = OkBool(TRUE)) =>
        /\ Len(data) = Len(last.data0)
        /\ \A i \in 1..Len(data) : Get(data[i], "_id") = Get(last.data0[i], "_id")
        /\ HoldsId(data, last.id)

\* C7: round trip: after N inserts, one after the other, into a collection
\* that began empty, a Collection built anew over the same file holds the N
\* documents, each with the `_id` insert returned for it, in insertion order.
C7_RoundTrip ==
    (expect.ok /\ last.op = "new" /\ pc[1] = "idle") => data = expect.docs
C7_Witness ==
    /\ expect.ok /\ last.op = "new" /\ pc[1] = "idle"
    /\ Len(expect.docs) = 2
    /\ expect.docs[1] # expect.docs[2]

NoMatch(docs, id) == \A i \in 1..Len(docs) : ~HasId(docs[i], id)

\* C8: update_field and delete_by_id given an id that no document carries
\* return false, write nothing to disk and leave file and memory as they
\* were: the step that scans for the id changes nothing and returns false.
C8_NotFoundNoEffect ==
    [][\A t \in Threads :
          (pc[t] \in {"upd_scan", "del_scan"} /\ pc'[t] # pc[t]
           /\ NoMatch(data, cur[t].id))
          => (/\ pc'[t] = "idle" /\ ret'[t] = OkBool(FALSE)
              /\ file' = file /\ wpos' = wpos /\ data' = data
              /\ writerLock' = writerLock)]_vars
C8_Witness ==
    \E t, u \in Threads :
        /\ ret[t] = OkBool(FALSE) /\ pc[t] = "idle"
        /\ ret[u].k = "id" /\ data # << >> /\ Load(file) = data

LinesOf(docs) == [i \in 1..Len(docs) |-> to_string(docs[i])]

\* C9: delete_by_id of an id present in the collection returns true, removes
\* exactly the first document of that `_id`, keeps the others in their
\* order, and on return the file holds exactly the remaining documents, one
\* line each: no line at all when the last document was deleted.
C9_DeleteRemovesFirst ==
    (last.op = "delete_by_id" /\ pc[1] = "idle" /\ HoldsId(last.data0, last.id)) =>
        /\ ret[1] = OkBool(TRUE)
        /\ \E i \in 1..Len(last.data0) :
              /\ HasId(last.data0[i], last.id)
              /\ \A j \in 1..(i - 1) : ~HasId(last.data0[j], last.id)
              /\ data = SubSeq(last.data0, 1, i - 1)
                          \o SubSeq(last.data0, i + 1, Len(last.data0))
        /\ Lines(file) = LinesOf(data)
        /\ (data = << >> => file = << >>)
C9_Witness ==
    /\ last.op = "delete_by_id" /\ pc[1] = "idle"
    /\ \E i, j \in 1..Len(last.data0) :
          i < j /\ HasId(last.data0[i], last.id) /\ HasId(last.data0[j], last.id)
             /\ last.data0[i] # last.data0[j]

\* C10: persist is idempotent: a persist called right after a persist leaves
\* the file byte for byte as the first left it, and what any persist leaves
\* is one line per in-memory document, in sequence order, whatever the file
\* held before.
C10_PersistIdempotent ==
    (last.op = "persist" /\ pc[1] = "idle") =>
        /\ ret[1] = OkUnit
        /\ file = Dump(last.data0) /\ data = last.data0
        /\ Lines(file) = LinesOf(data)
        /\ (prev = "persist" => file = last.file0)
C10_Witness ==
    /\ last.op = "persist" /\ prev = "persist" /\ pc[1] = "idle"
    /\ calls = 2 /\ ~fresh /\ Len(data) = 1

\* C11: insert of a value that is no JSON object (array, string, number,
\* boolean, null) returns InvalidInput and leaves memory and file as they
\* were; insert of a JSON object returns an id unless the disk fails.
C11_InsertRejectsNonObjects ==
    (last.op = "insert" /\ pc[1] = "idle") =>
        IF last.doc.k = "obj"
        THEN ret[1].k = "id" \/ Failed(ret[1])
        ELSE /\ ret[1].k = "err" /\ ret[1].v = "InvalidInput"
             /\ data = last.data0 /\ file = last.file0
C11_Witness ==
    /\ last.op = "insert" /\ pc[1] = "idle" /\ last.doc = EmptyArray
    /\ ret[1].k = "err" /\ prev = "insert" /\ Len(data) > 1

\* C12: when insert of an object D returns an id, the documents (what
\* find_all returns) end with D carrying `_id` = that id in place of any
\* `_id` the caller supplied, the documents before it are as they were, and
\* no other document carries that id.
C12_InsertAppendsTagged ==
    /\ (last.op = "insert" /\ pc[1] = "idle" /\ ret[1].k = "id") =>
          /\ ret[1].v >= 1
          /\ data = Append(last.data0,
                           Obj([f \in Fields |-> IF f = "_id" THEN Str(ret[1].v)
                                                 ELSE last.doc.v[f]]))
          /\ \A i \in 1..(Len(data) - 1) : Get(data[i], "_id") # Str(ret[1].v)
    /\ (last.op = "find_all" /\ pc[1] = "idle") => ret[1].v = data
C12_Witness ==
    /\ last.op = "insert" /\ pc[1] = "idle" /\ ret[1].k = "id"
    /\ Get(last.doc, "_id") = Str(1) /\ ret[1].v = 2 /\ Len(data) = 2
    /\ Get(data[1], "_id") = Str(1)

\* what the operator table asks of a field x, written with the pieces of
\* the text before and after the argument
EqOps == {"=", "==", "eq"}
LikeOps == {"like", "LIKE", "contains"}
Piece(s, i, j) == SubSeq(s, i + 1, j)
Asked(x, value, operator) ==
    \/ /\ x.k = "str"
       /\ LET s == Digits(x.v)
              n == Len(s)
          IN  \/ operator \in EqOps /\ s = value
              \/ operator \in LikeOps
                   /\ \E i \in 0..n, j \in 0..n : i <= j /\ Piece(s, i, j) = value
              \/ operator = "starts_with" /\ \E j \in 0..n : Piece(s, 0, j) = value
              \/ operator = "ends_with" /\ \E i \in 0..n : Piece(s, i, n) = value
    \/ x.k = "num" /\ operator \in EqOps /\ Digits(x.v) = value
\* r holds, in order, exactly the documents of docs at the indices in idx
Picks(r, docs, idx) ==
    /\ Len(r) = Cardinality(idx)
    /\ \A i \in idx : r[Cardinality({j \in idx : j <= i})] = docs[i]

\* C16: find_with_operator returns, in the order of memory, exactly the
\* documents whose field is a string matching under =/==/eq (equality),
\* like/LIKE/contains (substring), starts_with (prefix) or ends_with
\* (suffix), or is a number whose rendering equals the value under =/==/eq;
\* another operator, another field type or an absent field never matches;
\* memory and file stay as they were.
C16_OperatorTable ==
    (last.op = "find_with_operator" /\ pc[1] = "idle") =>
        /\ ret[1].k = "docs"
        /\ Picks(ret[1].v, data,
                 { i \in 1..Len(data) :
                     /\ data[i].k = "obj"
                     /\ Asked(data[i].v[last.field], last.val.v, last.operator) })
        /\ data = last.data0 /\ file = last.file0
C16_Witness ==
    /\ last.op = "find_with_operator" /\ pc[1] = "idle"
    /\ last.operator = "like" /\ last.val.v = <<2>> /\ last.field = "a"
    /\ Len(data) = 3 /\ ret[1].v = <<data[1], data[3]>>

\* C13: every boundary function called with a null Database or collection
\* handle returns its failure value (null, 0, or nothing for the free
\* functions) and does not dereference the handle.
C13_NullHandleRejected ==
    ffi.null => ~ffi.deref /\ ffi.out \in {"null", "0", "noop"}

\* C14: every document of the in-memory sequence is a JSON object, after
\* construction over any existing file and after any sequence of insert,
\* update_field and delete_by_id.
C14_DocumentsAreObjects ==
    \A i \in 1..Len(data) : data[i].k = "obj"

\* the lines that are not blank and parse, in the order of the file
KeptLines(bytes) ==
    SelectSeq(Lines(bytes), LAMBDA l : ~IsBlank(l) /\ FromStr(l) # ParseError)

\* C15: constructing a Collection over a file of well-formed, blank and
\* malformed lines never fails because of what a line holds; the initial
\* documents are exactly the lines that parse, in file order.
C15_LoadNeverFails ==
    (last.op = "new" /\ pc[1] = "idle") =>
        /\ ret[1].k # "err"
        /\ Len(data) = Len(KeptLines(file))
        /\ \A i \in 1..Len(data) : data[i] = FromStr(KeptLines(file)[i])

\* a thread inside the append section of insert or the rewrite section of
\* persist
InDiskSection(t) == pc[t] \in {"ins_append", "per_trunc", "per_write"}

\* C17: no two threads are at once inside a disk-append or disk-rewrite
\* section of the collection; the thread inside owns the writer.
C17_DiskWritesExclusive ==
    \A t \in Threads :
        InDiskSection(t) =>
            /\ writerLock = t
            /\ \A u \in Threads \ {t} : ~InDiskSection(u)
C17_Witness ==
    \E t, u \in Threads :
        /\ pc[t] = "per_write" /\ pc[u] = "ins_wlock" /\ writerLock = t

\* the indices of the documents of docs that carry the id
Carriers(docs, id) == { i \in 1..Len(docs) : docs[i].k = "obj" /\ docs[i].v["_id"] = Str(id) }
Least(S) == CHOOSE i \in S : \A j \in S : i <= j
Mutating == last.op \in {"update_field", "delete_by_id"} /\ pc[1] = "idle"

\* C18: when the rewrite of update_field or delete_by_id fails, the caller
\* gets the error (true is returned only with the file rewritten from
\* memory), the change stays in memory, and a Collection constructed anew
\* holds what the file holds.
C18_PersistFailure ==
    /\ (Mutating /\ ret[1].k = "bool" /\ ret[1].v) => file = Dump(data)
    /\ (Mutating /\ Failed(ret[1])) =>
          LET i == Least(Carriers(last.data0, last.id))
          IN  /\ Carriers(last.data0, last.id) # {}
              /\ last.op = "update_field" =>
                    data = [last.data0 EXCEPT ![i] =
                               Obj([last.data0[i].v EXCEPT ![last.field] = last.val])]
              /\ last.op = "delete_by_id" =>
                    /\ Len(data) = Len(last.data0) - 1
                    /\ \A k \in 1..Len(data) :
                          data[k] = last.data0[IF k < i THEN k ELSE k + 1]
    /\ (last.op = "new" /\ pc[1] = "idle") =>
          /\ file = last.file0
          /\ Len(data) = Len(KeptLines(file))
          /\ \A k \in 1..Len(data) : data[k] = FromStr(KeptLines(file)[k])
C18_Witness ==
    /\ last.op = "new" /\ pc[1] = "idle" /\ prev = "update_field"
    /\ Len(data) < Len(last.data0) /\ Len(data) > 0

\* a thread between taking the read lock in persist and dropping it
InPersist(t) == pc[t] \in {"per_wlock", "per_trunc", "per_write", "per_drop"}

\* C20, as stated: when a successful persist returns, the file is the
\* in-memory sequence of that moment; and with only update_field and
\* delete_by_id running, the file is the in-memory sequence once all calls
\* have returned.
C20_SnapshotAtReturn ==
    /\ last.op = "returned" => last.file0 = Dump(last.data0)
    /\ IdleAll => file = Dump(data)

\* C20, amended: persist holds the read lock from before the truncation
\* until after its last write, so what it has written when it lets go of
\* the writer is the in-memory sequence of that moment; with only
\* update_field and delete_by_id running, the file is the in-memory
\* sequence once all calls have returned.
C20_SnapshotWhenWritten ==
    /\ \A t \in Threads : InPersist(t) => t \in dataLock.r /\ dataLock.w = 0
    /\ last.op = "written" => last.file0 = Dump(last.data0)
    /\ IdleAll => file = Dump(data)
C20_Witness ==
    /\ \E t, u \in Threads : pc[t] = "per_drop" /\ pc[u] = "per_write"
    /\ file = << >> /\ data # << >> /\ last.op = "written"

\* thread t waits for a lock that thread u holds
Waits(t, u) ==
    \/ pc[t] \in {"ins_wlock", "per_wlock"} /\ writerLock = u
    \/ pc[t] \in {"ins_dlock", "upd_dlock", "del_dlock"}
         /\ (dataLock.w = u \/ u \in dataLock.r)
    \/ pc[t] \in {"fa_rlock", "fi_rlock", "fo_rlock", "per_rlock"} /\ dataLock.w = u
    \/ pc[t] = "col_rlock" /\ regLock.w = u
    \/ pc[t] = "col_wlock" /\ (regLock.w = u \/ u \in regLock.r)
\* no set of threads in which every thread waits for another of the set
NoWaitCycle ==
    \A S \in SUBSET Threads \ {{}} : \E t \in S : \A u \in S : ~Waits(t, u)

\* C19: with threads calling insert, find_all, find, find_with_operator,
\* update_field, delete_by_id, persist and Database.collection, no threads
\* ever wait for each other's locks in a cycle, and under fair scheduling
\* every call returns.
C19_EveryCallReturns ==
    /\ []NoWaitCycle
    /\ \A t \in Threads : (pc[t] # "idle") ~> (pc[t] = "idle")
C19_Witness ==
    \E t, u \in Threads :
        /\ pc[t] = "upd_dlock" /\ pc[u] = "per_write" /\ Waits(t, u)

====================================================================
